---- MODULE Spec2Model ----
(***************************************************************************)
(* Model of dea/io/async.py: the single-stream mapper async_q2q_map, the   *)
(* fan-out/fan-in pump q2q_nmap and the thread pool AsyncWorkerPool.       *)
(*                                                                         *)
(* Every `await` of the source is a point where the event loop of a thread *)
(* may switch to another task of that thread, and every operation on one   *)
(* of the two blocking queues is a point where another thread may run.     *)
(* One action of the model is the code between two such points.            *)
(* The counters nin and nout of map are written and never read; they are   *)
(* left out. Timers (asyncio.sleep, time.sleep) expire at any later time.  *)
(***************************************************************************)
EXTENDS Integers, Sequences, FiniteSets, Bags, TLC

(* ------------------------------ bounds -------------------------------- *)
MaxThreads == 2
MaxTasks == 2
MaxBuffer == 2
MaxItems == 2
MaxCalls == 2
MaxMappers == 2
MaxMapperItems == 4
LongItems == 10
FlushItems == 12
FlushBuffer == 11

(* ------------------------- program constants -------------------------- *)
FlushLimit == 10
TestQueueSize == 10

VARIABLES
    nthreads,        \* AsyncWorkerPool._nthreads (number of loops / jobs)
    tasks,           \* nconcurrent: mappers per pump
    max_buffer,      \* capacity of the two blocking queues
    eos_passthrough, \* q2q_nmap's eos_passthrough argument
    instrumented,    \* the mapping function is test_q2qnmap's proc, which counts
    max_calls,       \* how many times the caller calls map
    q1, q1_unfinished, \* blocking feed queue and its unfinished_tasks count
    q2,              \* blocking result queue
    aq_in, aq_in_unfinished,   \* per thread: asyncio input queue
    aq_out, aq_out_unfinished, \* per thread: asyncio output queue
    aq_maxsize,      \* per thread: maxsize of aq_in and aq_out
    pump_pc, pump_x, pump_neos, \* per thread: q2q_nmap / intake_loop position
    m_pc, m_x, m_passthrough,   \* per thread, per mapper: async_q2q_map
    o_pc, o_x,       \* per thread: output_loop
    o_taken,         \* per thread, history: what output_loop took from aq_out
    active, max_active, \* per thread: instrumentation of the mapping function
    g_pc, g_its, g_x, g_n, g_i, workers, \* the map generator
    input, yielded, dropped, calls,      \* what map was given / gave back
    invoked,         \* history: the items func was called with
    prod_pc, prod_i, \* run_producer of the tests
    cons_pc, xx,     \* run_consumer of the tests
    test_pc          \* run_test of the tests

cfgVars == <<nthreads, tasks, max_buffer, eos_passthrough, instrumented, max_calls>>
qVars == <<q1, q1_unfinished, q2>>
aqVars == <<aq_in, aq_in_unfinished, aq_out, aq_out_unfinished, aq_maxsize>>
pumpVars == <<pump_pc, pump_x, pump_neos>>
mapVars == <<m_pc, m_x, m_passthrough>>
outVars == <<o_pc, o_x, o_taken>>
statVars == <<active, max_active>>
genVars == <<g_pc, g_its, g_x, g_n, g_i, workers>>
histVars == <<input, yielded, dropped, calls, invoked>>
testVars == <<prod_pc, prod_i, cons_pc, xx, test_pc>>

vars == <<cfgVars, qVars, aqVars, pumpVars, mapVars, outVars, statVars,
          genVars, histVars, testVars>>

(* ------------------------------ values -------------------------------- *)
\* The end-of-stream sentinel, the work items and the results of the mapping
\* function are all tuples, so that any two of them can be compared.
EOS_MARKER == <<>>

Item(i) == <<i>>

\* proc of the tests: x -> (x, x)
proc(x) == <<x[1], x[1]>>

Threads == 1..nthreads
Mappers == 1..tasks

RECURSIVE SeqToBag(_)
SeqToBag(s) == IF s = <<>> THEN EmptyBag
               ELSE SetToBag({Head(s)}) (+) SeqToBag(Tail(s))

\* A bag as a sequence, in some order.
RECURSIVE BagToSeq(_)
BagToSeq(b) == IF b = EmptyBag THEN <<>>
               ELSE LET e == CHOOSE e \in BagToSet(b) : TRUE
                    IN <<e>> \o BagToSeq(b (-) SetToBag({e}))

RECURSIVE MapSeq(_)
MapSeq(s) == IF s = <<>> THEN <<>> ELSE <<proc(Head(s))>> \o MapSeq(Tail(s))

\* The input sequences of the c-th call of map: n fresh items in order, or n
\* copies of the first of them.
InputsOf(c) ==
    LET base == (c - 1) * MaxItems
    IN UNION {{[i \in 1..n |-> Item(base + i)], [i \in 1..n |-> Item(base + 1)]} :
              n \in 0..MaxItems}

\* The input sequences of a single run.
Inputs == InputsOf(1)

\* Input queues of the mapper test: items 1..n in order (the test has n = 4).
InputsMapper == {[i \in 1..n |-> Item(i)] : n \in 0..MaxMapperItems}

Max(a, b) == IF a >= b THEN a ELSE b

Min(a, b) == IF a <= b THEN a ELSE b

(* ------------------------- queue primitives --------------------------- *)
\* queue.Queue.full() / asyncio.Queue.full()
Full(q, maxsize) == Len(q) >= maxsize

\* queue.Queue.empty()
Empty(q) == q = <<>>

\* Placeholder of a local variable that holds no item (Python's None).
None == <<0>>

\* (mutant) the queue hands out its newest item first
safe_get_Lifo(src) ==
    IF Empty(src) THEN [ok |-> FALSE, x |-> None, q |-> src]
    ELSE [ok |-> TRUE, x |-> src[Len(src)], q |-> SubSeq(src, 1, Len(src) - 1)]

\* (mutant) the item is read but left on the queue
safe_get_Peek(src) ==
    IF Empty(src) THEN [ok |-> FALSE, x |-> None, q |-> src]
    ELSE [ok |-> TRUE, x |-> Head(src), q |-> src]

\* safe_get of q2q_nmap: get_nowait, queue.Empty turned into ok = False
safe_get(src) ==
    IF Empty(src) THEN [ok |-> FALSE, x |-> None, q |-> src]
    ELSE [ok |-> TRUE, x |-> Head(src), q |-> Tail(src)]

\* (mutant) the put never fails: the queue grows beyond its maxsize
safe_put_Unbounded(x, dst, maxsize) == [ok |-> TRUE, q |-> Append(dst, x)]

\* (mutant) the item is put at the head of the queue
safe_put_Front(x, dst, maxsize) ==
    IF Full(dst, maxsize) THEN [ok |-> FALSE, q |-> dst]
    ELSE [ok |-> TRUE, q |-> <<x>> \o dst]

\* safe_put of q2q_nmap: put_nowait, queue.Full turned into False
safe_put(x, dst, maxsize) ==
    IF Full(dst, maxsize) THEN [ok |-> FALSE, q |-> dst]
    ELSE [ok |-> TRUE, q |-> Append(dst, x)]

\* The event loop of thread t is inside run_until_complete.
LoopRunning(t) == pump_pc[t] \notin {"idle", "start", "done", "failed"}

(* ------------------- the mapping function of the tests ---------------- *)
\* proc of test_q2qnmap: state.active += 1 before its sleep
func_enter(a) == IF instrumented THEN a + 1 ELSE a

\* (mutant) the peak is taken after the invocation has been counted out
func_max_active_AfterExit(a, m) == IF instrumented THEN Max(a - 1, m) ELSE m

\* state.max_active = max(state.active, state.max_active) after its sleep
func_max_active(a, m) == IF instrumented THEN Max(a, m) ELSE m

\* state.active -= 1
func_exit(a) == IF instrumented THEN a - 1 ELSE a

(* --------------------------- async_q2q_map ---------------------------- *)
\* (mutant) func(x) is started but not awaited: the mapper goes on to q_in.get()
AfterCallPc_NoAwait == "get"

\* result = await func(x): the mapper is suspended until func(x) is over
AfterCallPc == "func"

\* (mutant) the mapper goes back to q_in.get() after the marker
AfterEosPc_Continue == "get"

\* `return` of the end-of-stream branch: the mapper coroutine is over
AfterEosPc == "done"

\* x = await q_in.get(); on the end-of-stream marker stop (after the optional
\* pass-through), otherwise call func(x), which runs up to its first await.
MapperGet(t, k) ==
    /\ LoopRunning(t)
    /\ m_pc[t][k] = "get"
    /\ ~Empty(aq_in[t])
    /\ LET x == Head(aq_in[t]) IN
        /\ aq_in' = [aq_in EXCEPT ![t] = Tail(@)]
        /\ IF x = EOS_MARKER
           THEN IF m_passthrough[t]
                THEN /\ m_pc' = [m_pc EXCEPT ![t][k] = "put_eos"]
                     /\ m_x' = [m_x EXCEPT ![t][k] = x]
                     /\ UNCHANGED aq_in_unfinished
                ELSE /\ m_pc' = [m_pc EXCEPT ![t][k] = AfterEosPc]
                     /\ aq_in_unfinished' = [aq_in_unfinished EXCEPT ![t] = @ - 1]
                     /\ UNCHANGED m_x
           ELSE /\ m_pc' = [m_pc EXCEPT ![t][k] = AfterCallPc]
                /\ m_x' = [m_x EXCEPT ![t][k] = x]
                /\ UNCHANGED aq_in_unfinished
        /\ active' = [active EXCEPT ![t] = IF x = EOS_MARKER THEN @ ELSE func_enter(@)]
        /\ invoked' = IF x = EOS_MARKER THEN invoked ELSE invoked (+) SetToBag({x})
    /\ UNCHANGED <<cfgVars, qVars, aq_out, aq_out_unfinished, aq_maxsize, pumpVars,
                   m_passthrough, outVars, max_active, genVars, input, yielded,
                   dropped, calls, testVars>>

\* await q_out.put(eos_marker); q_in.task_done(); return
MapperPutEos(t, k) ==
    /\ LoopRunning(t)
    /\ m_pc[t][k] = "put_eos"
    /\ ~Full(aq_out[t], aq_maxsize[t])
    /\ aq_out' = [aq_out EXCEPT ![t] = Append(@, m_x[t][k])]
    /\ aq_out_unfinished' = [aq_out_unfinished EXCEPT ![t] = @ + 1]
    /\ aq_in_unfinished' = [aq_in_unfinished EXCEPT ![t] = @ - 1]
    /\ m_pc' = [m_pc EXCEPT ![t][k] = "done"]
    /\ m_x' = [m_x EXCEPT ![t][k] = None]
    /\ UNCHANGED <<cfgVars, qVars, aq_in, aq_maxsize, pumpVars, m_passthrough,
                   outVars, statVars, genVars, histVars, testVars>>

\* func(x) completes with a result: the mapper holds it for q_out.put
MapperFuncReturn(t, k) ==
    /\ LoopRunning(t)
    /\ m_pc[t][k] = "func"
    /\ max_active' = [max_active EXCEPT ![t] = func_max_active(active[t], @)]
    /\ active' = [active EXCEPT ![t] = func_exit(@)]
    /\ m_x' = [m_x EXCEPT ![t][k] = proc(@)]
    /\ m_pc' = [m_pc EXCEPT ![t][k] = "put"]
    /\ UNCHANGED <<cfgVars, qVars, aqVars, pumpVars, m_passthrough, outVars,
                   genVars, histVars, testVars>>

\* (mutant) the result, None, is put on q_out also when func(x) raised
MapperFuncRaise_PutsNone(t, k) ==
    /\ LoopRunning(t)
    /\ m_pc[t][k] = "func"
    /\ max_active' = [max_active EXCEPT ![t] = func_max_active(active[t], @)]
    /\ active' = [active EXCEPT ![t] = func_exit(@)]
    /\ dropped' = dropped (+) SetToBag({m_x[t][k]})
    /\ m_x' = [m_x EXCEPT ![t][k] = None]
    /\ m_pc' = [m_pc EXCEPT ![t][k] = "put"]
    /\ UNCHANGED <<cfgVars, qVars, aqVars, pumpVars, m_passthrough, outVars,
                   genVars, input, yielded, calls, invoked, testVars>>

\* (mutant) the item is not acknowledged when func(x) raised
MapperFuncRaise_NoTaskDone(t, k) ==
    /\ LoopRunning(t)
    /\ m_pc[t][k] = "func"
    /\ max_active' = [max_active EXCEPT ![t] = func_max_active(active[t], @)]
    /\ active' = [active EXCEPT ![t] = func_exit(@)]
    /\ dropped' = dropped (+) SetToBag({m_x[t][k]})
    /\ m_x' = [m_x EXCEPT ![t][k] = None]
    /\ m_pc' = [m_pc EXCEPT ![t][k] = "get"]
    /\ UNCHANGED <<cfgVars, qVars, aqVars, pumpVars, m_passthrough, outVars,
                   genVars, input, yielded, calls, invoked, testVars>>

\* func(x) raises: the exception is logged, nothing is put, q_in.task_done()
MapperFuncRaise(t, k) ==
    /\ LoopRunning(t)
    /\ m_pc[t][k] = "func"
    /\ max_active' = [max_active EXCEPT ![t] = func_max_active(active[t], @)]
    /\ active' = [active EXCEPT ![t] = func_exit(@)]
    /\ dropped' = dropped (+) SetToBag({m_x[t][k]})
    /\ aq_in_unfinished' = [aq_in_unfinished EXCEPT ![t] = @ - 1]
    /\ m_x' = [m_x EXCEPT ![t][k] = None]
    /\ m_pc' = [m_pc EXCEPT ![t][k] = "get"]
    /\ UNCHANGED <<cfgVars, qVars, aq_in, aq_out, aq_out_unfinished, aq_maxsize,
                   pumpVars, m_passthrough, outVars, genVars, input, yielded,
                   calls, invoked, testVars>>

\* (mutant) the result is put but the input item is never acknowledged
MapperPut_NoTaskDone(t, k) ==
    /\ LoopRunning(t)
    /\ m_pc[t][k] = "put"
    /\ ~Full(aq_out[t], aq_maxsize[t])
    /\ aq_out' = [aq_out EXCEPT ![t] = Append(@, m_x[t][k])]
    /\ aq_out_unfinished' = [aq_out_unfinished EXCEPT ![t] = @ + 1]
    /\ m_pc' = [m_pc EXCEPT ![t][k] = "get"]
    /\ m_x' = [m_x EXCEPT ![t][k] = None]
    /\ UNCHANGED <<cfgVars, qVars, aq_in, aq_in_unfinished, aq_maxsize, pumpVars,
                   m_passthrough, outVars, statVars, genVars, histVars, testVars>>

\* await q_out.put(result); q_in.task_done()
MapperPut(t, k) ==
    /\ LoopRunning(t)
    /\ m_pc[t][k] = "put"
    /\ ~Full(aq_out[t], aq_maxsize[t])
    /\ aq_out' = [aq_out EXCEPT ![t] = Append(@, m_x[t][k])]
    /\ aq_out_unfinished' = [aq_out_unfinished EXCEPT ![t] = @ + 1]
    /\ aq_in_unfinished' = [aq_in_unfinished EXCEPT ![t] = @ - 1]
    /\ m_pc' = [m_pc EXCEPT ![t][k] = "get"]
    /\ m_x' = [m_x EXCEPT ![t][k] = None]
    /\ UNCHANGED <<cfgVars, qVars, aq_in, aq_maxsize, pumpVars, m_passthrough,
                   outVars, statVars, genVars, histVars, testVars>>

(* ------------------------ q2q_nmap: output_loop ----------------------- *)
\* The record of what output_loop took, kept for the instrumented runs only.
observe(s, x) == IF instrumented THEN Append(s, x) ELSE s

\* (mutant) output_loop stops on the marker without acknowledging it
OutputGet_NoAck(t) ==
    /\ LoopRunning(t)
    /\ o_pc[t] = "get"
    /\ ~Empty(aq_out[t])
    /\ LET x == Head(aq_out[t]) IN
        /\ aq_out' = [aq_out EXCEPT ![t] = Tail(@)]
        /\ IF x = EOS_MARKER
           THEN /\ o_pc' = [o_pc EXCEPT ![t] = "done"]
                /\ UNCHANGED <<o_x, o_taken, aq_out_unfinished>>
           ELSE /\ o_pc' = [o_pc EXCEPT ![t] = "push"]
                /\ o_x' = [o_x EXCEPT ![t] = x]
                /\ o_taken' = [o_taken EXCEPT ![t] = observe(@, x)]
                /\ UNCHANGED aq_out_unfinished
    /\ UNCHANGED <<cfgVars, qVars, aq_in, aq_in_unfinished, aq_maxsize, pumpVars,
                   mapVars, statVars, genVars, histVars, testVars>>

\* x = await src.get(); on the marker task_done() and stop
OutputGet(t) ==
    /\ LoopRunning(t)
    /\ o_pc[t] = "get"
    /\ ~Empty(aq_out[t])
    /\ LET x == Head(aq_out[t]) IN
        /\ aq_out' = [aq_out EXCEPT ![t] = Tail(@)]
        /\ IF x = EOS_MARKER
           THEN /\ aq_out_unfinished' = [aq_out_unfinished EXCEPT ![t] = @ - 1]
                /\ o_pc' = [o_pc EXCEPT ![t] = "done"]
                /\ UNCHANGED <<o_x, o_taken>>
           ELSE /\ o_pc' = [o_pc EXCEPT ![t] = "push"]
                /\ o_x' = [o_x EXCEPT ![t] = x]
                /\ o_taken' = [o_taken EXCEPT ![t] = observe(@, x)]
                /\ UNCHANGED aq_out_unfinished
    /\ UNCHANGED <<cfgVars, qVars, aq_in, aq_in_unfinished, aq_maxsize, pumpVars,
                   mapVars, statVars, genVars, histVars, testVars>>

\* (mutant) a result that does not fit into the result queue is given up
OutputPush_DropOnFull(t) ==
    /\ LoopRunning(t)
    /\ o_pc[t] = "push"
    /\ q2' = safe_put(o_x[t], q2, max_buffer).q
    /\ aq_out_unfinished' = [aq_out_unfinished EXCEPT ![t] = @ - 1]
    /\ o_pc' = [o_pc EXCEPT ![t] = "get"]
    /\ o_x' = [o_x EXCEPT ![t] = None]
    /\ UNCHANGED <<cfgVars, q1, q1_unfinished, aq_in, aq_in_unfinished, aq_out,
                   aq_maxsize, pumpVars, mapVars, o_taken, statVars, genVars,
                   histVars, testVars>>

\* push_to_dst(x, dst, dt): one attempt of safe_put; src.task_done() after it
OutputPush(t) ==
    /\ LoopRunning(t)
    /\ o_pc[t] = "push"
    /\ LET r == safe_put(o_x[t], q2, max_buffer) IN
        IF r.ok
        THEN /\ q2' = r.q
             /\ aq_out_unfinished' = [aq_out_unfinished EXCEPT ![t] = @ - 1]
             /\ o_pc' = [o_pc EXCEPT ![t] = "get"]
             /\ o_x' = [o_x EXCEPT ![t] = None]
        ELSE /\ o_pc' = [o_pc EXCEPT ![t] = "sleep"]
             /\ UNCHANGED <<q2, aq_out_unfinished, o_x>>
    /\ UNCHANGED <<cfgVars, q1, q1_unfinished, aq_in, aq_in_unfinished, aq_out,
                   aq_maxsize, pumpVars, mapVars, o_taken, statVars, genVars,
                   histVars, testVars>>

\* await asyncio.sleep(dt) of push_to_dst is over
OutputWake(t) ==
    /\ LoopRunning(t)
    /\ o_pc[t] = "sleep"
    /\ o_pc' = [o_pc EXCEPT ![t] = "push"]
    /\ UNCHANGED <<cfgVars, qVars, aqVars, pumpVars, mapVars, o_x, o_taken,
                   statVars, genVars, histVars, testVars>>

(* ----------------------- q2q_nmap and intake_loop --------------------- *)
\* (mutant) the asyncio queues are made three times as long as the mappers
PumpStart_WideQueues(t) ==
    /\ pump_pc[t] = "start"
    /\ aq_maxsize' = [aq_maxsize EXCEPT ![t] = tasks * 3]
    /\ aq_in' = [aq_in EXCEPT ![t] = <<>>]
    /\ aq_out' = [aq_out EXCEPT ![t] = <<>>]
    /\ aq_in_unfinished' = [aq_in_unfinished EXCEPT ![t] = 0]
    /\ aq_out_unfinished' = [aq_out_unfinished EXCEPT ![t] = 0]
    /\ m_pc' = [m_pc EXCEPT ![t] = [k \in Mappers |-> "get"]]
    /\ m_x' = [m_x EXCEPT ![t] = [k \in Mappers |-> None]]
    /\ m_passthrough' = [m_passthrough EXCEPT ![t] = FALSE]
    /\ o_pc' = [o_pc EXCEPT ![t] = "get"]
    /\ o_x' = [o_x EXCEPT ![t] = None]
    /\ o_taken' = [o_taken EXCEPT ![t] = <<>>]
    /\ pump_pc' = [pump_pc EXCEPT ![t] = "poll"]
    /\ UNCHANGED <<cfgVars, qVars, pump_x, pump_neos, statVars, genVars,
                   histVars, testVars>>

\* q2q_nmap up to the first step of intake_loop: the two asyncio queues are
\* created, nconcurrent mappers (eos_passthrough=False) and output_loop are
\* scheduled on the loop.
PumpStart(t) ==
    /\ pump_pc[t] = "start"
    /\ aq_maxsize' = [aq_maxsize EXCEPT ![t] = tasks * 2]
    /\ aq_in' = [aq_in EXCEPT ![t] = <<>>]
    /\ aq_out' = [aq_out EXCEPT ![t] = <<>>]
    /\ aq_in_unfinished' = [aq_in_unfinished EXCEPT ![t] = 0]
    /\ aq_out_unfinished' = [aq_out_unfinished EXCEPT ![t] = 0]
    /\ m_pc' = [m_pc EXCEPT ![t] = [k \in Mappers |-> "get"]]
    /\ m_x' = [m_x EXCEPT ![t] = [k \in Mappers |-> None]]
    /\ m_passthrough' = [m_passthrough EXCEPT ![t] = FALSE]
    /\ o_pc' = [o_pc EXCEPT ![t] = "get"]
    /\ o_x' = [o_x EXCEPT ![t] = None]
    /\ o_taken' = [o_taken EXCEPT ![t] = <<>>]
    /\ pump_pc' = [pump_pc EXCEPT ![t] = "poll"]
    /\ UNCHANGED <<cfgVars, qVars, pump_x, pump_neos, statVars, genVars,
                   histVars, testVars>>

\* intake_loop: x, ok = safe_get(src), and the branch taken on it. The marker
\* is acknowledged at once; a real item is held for `await dst.put(x)`.
IntakeGet(t) ==
    /\ pump_pc[t] = "poll"
    /\ LET r == safe_get(q1) IN
        IF ~r.ok
        THEN /\ pump_pc' = [pump_pc EXCEPT ![t] = "sleep"]
             /\ UNCHANGED <<q1, q1_unfinished, pump_x, pump_neos>>
        ELSE /\ q1' = r.q
             /\ IF r.x = EOS_MARKER
                THEN /\ q1_unfinished' = q1_unfinished - 1
                     /\ pump_pc' = [pump_pc EXCEPT ![t] = "eos"]
                     /\ pump_neos' = [pump_neos EXCEPT ![t] = tasks]
                     /\ UNCHANGED pump_x
                ELSE /\ pump_pc' = [pump_pc EXCEPT ![t] = "put"]
                     /\ pump_x' = [pump_x EXCEPT ![t] = r.x]
                     /\ UNCHANGED <<q1_unfinished, pump_neos>>
    /\ UNCHANGED <<cfgVars, q2, aqVars, mapVars, outVars, statVars, genVars,
                   histVars, testVars>>

\* await asyncio.sleep(dt) of intake_loop is over
IntakeWake(t) ==
    /\ pump_pc[t] = "sleep"
    /\ pump_pc' = [pump_pc EXCEPT ![t] = "poll"]
    /\ UNCHANGED <<cfgVars, qVars, aqVars, pump_x, pump_neos, mapVars, outVars,
                   statVars, genVars, histVars, testVars>>

\* (mutant) the item is forwarded but never acknowledged to the feed queue
IntakePut_NoTaskDone(t) ==
    /\ pump_pc[t] = "put"
    /\ ~Full(aq_in[t], aq_maxsize[t])
    /\ aq_in' = [aq_in EXCEPT ![t] = Append(@, pump_x[t])]
    /\ aq_in_unfinished' = [aq_in_unfinished EXCEPT ![t] = @ + 1]
    /\ pump_x' = [pump_x EXCEPT ![t] = None]
    /\ pump_pc' = [pump_pc EXCEPT ![t] = "poll"]
    /\ UNCHANGED <<cfgVars, qVars, aq_out, aq_out_unfinished, aq_maxsize,
                   pump_neos, mapVars, outVars, statVars, genVars, histVars,
                   testVars>>

\* await dst.put(x); src.task_done()
IntakePut(t) ==
    /\ pump_pc[t] = "put"
    /\ ~Full(aq_in[t], aq_maxsize[t])
    /\ aq_in' = [aq_in EXCEPT ![t] = Append(@, pump_x[t])]
    /\ aq_in_unfinished' = [aq_in_unfinished EXCEPT ![t] = @ + 1]
    /\ q1_unfinished' = q1_unfinished - 1
    /\ pump_x' = [pump_x EXCEPT ![t] = None]
    /\ pump_pc' = [pump_pc EXCEPT ![t] = "poll"]
    /\ UNCHANGED <<cfgVars, q1, q2, aq_out, aq_out_unfinished, aq_maxsize,
                   pump_neos, mapVars, outVars, statVars, genVars, histVars,
                   testVars>>

\* (mutant) a single marker is put, whatever the number of mappers
IntakePutEos_Once(t) ==
    /\ pump_pc[t] = "eos"
    /\ ~Full(aq_in[t], aq_maxsize[t])
    /\ aq_in' = [aq_in EXCEPT ![t] = Append(@, EOS_MARKER)]
    /\ aq_in_unfinished' = [aq_in_unfinished EXCEPT ![t] = @ + 1]
    /\ pump_neos' = [pump_neos EXCEPT ![t] = @ - 1]
    /\ pump_pc' = [pump_pc EXCEPT ![t] = "join"]
    /\ UNCHANGED <<cfgVars, qVars, aq_out, aq_out_unfinished, aq_maxsize, pump_x,
                   mapVars, outVars, statVars, genVars, histVars, testVars>>

\* for _ in range(nconcurrent): await dst.put(eos_marker)
IntakePutEos(t) ==
    /\ pump_pc[t] = "eos"
    /\ ~Full(aq_in[t], aq_maxsize[t])
    /\ aq_in' = [aq_in EXCEPT ![t] = Append(@, EOS_MARKER)]
    /\ aq_in_unfinished' = [aq_in_unfinished EXCEPT ![t] = @ + 1]
    /\ pump_neos' = [pump_neos EXCEPT ![t] = @ - 1]
    /\ pump_pc' = [pump_pc EXCEPT ![t] = IF pump_neos[t] = 1 THEN "join" ELSE "eos"]
    /\ UNCHANGED <<cfgVars, qVars, aq_out, aq_out_unfinished, aq_maxsize, pump_x,
                   mapVars, outVars, statVars, genVars, histVars, testVars>>

\* (mutant) intake_loop returns without waiting for aq_in to be drained
IntakeJoin_NoJoin(t) ==
    /\ pump_pc[t] = "join"
    /\ pump_pc' = [pump_pc EXCEPT ![t] = "term"]
    /\ UNCHANGED <<cfgVars, qVars, aqVars, pump_x, pump_neos, mapVars, outVars,
                   statVars, genVars, histVars, testVars>>

\* await dst.join() returns: intake_loop is over, q2q_nmap goes on
IntakeJoin(t) ==
    /\ pump_pc[t] = "join"
    /\ aq_in_unfinished[t] = 0
    /\ pump_pc' = [pump_pc EXCEPT ![t] = "term"]
    /\ UNCHANGED <<cfgVars, qVars, aqVars, pump_x, pump_neos, mapVars, outVars,
                   statVars, genVars, histVars, testVars>>

\* await aq_out.put(eos_marker)
PumpPutEos(t) ==
    /\ pump_pc[t] = "term"
    /\ ~Full(aq_out[t], aq_maxsize[t])
    /\ aq_out' = [aq_out EXCEPT ![t] = Append(@, EOS_MARKER)]
    /\ aq_out_unfinished' = [aq_out_unfinished EXCEPT ![t] = @ + 1]
    /\ pump_pc' = [pump_pc EXCEPT ![t] = "join_out"]
    /\ UNCHANGED <<cfgVars, qVars, aq_in, aq_in_unfinished, aq_maxsize, pump_x,
                   pump_neos, mapVars, outVars, statVars, genVars, histVars,
                   testVars>>

\* (mutant) q2q_nmap does not wait for output_loop to acknowledge the marker
PumpJoinOut_NoJoin(t) ==
    /\ pump_pc[t] = "join_out"
    /\ pump_pc' = [pump_pc EXCEPT ![t] = IF eos_passthrough THEN "push_eos" ELSE "done"]
    /\ UNCHANGED <<cfgVars, qVars, aqVars, pump_x, pump_neos, mapVars, outVars,
                   statVars, genVars, histVars, testVars>>

\* await aq_out.join() returns; without pass-through q2q_nmap returns
PumpJoinOut(t) ==
    /\ pump_pc[t] = "join_out"
    /\ aq_out_unfinished[t] = 0
    /\ pump_pc' = [pump_pc EXCEPT ![t] = IF eos_passthrough THEN "push_eos" ELSE "done"]
    /\ UNCHANGED <<cfgVars, qVars, aqVars, pump_x, pump_neos, mapVars, outVars,
                   statVars, genVars, histVars, testVars>>

\* push_to_dst(eos_marker, q_out, dt): one attempt of safe_put
PumpPushEos(t) ==
    /\ pump_pc[t] = "push_eos"
    /\ LET r == safe_put(EOS_MARKER, q2, max_buffer) IN
        IF r.ok
        THEN /\ q2' = r.q
             /\ pump_pc' = [pump_pc EXCEPT ![t] = "done"]
        ELSE /\ pump_pc' = [pump_pc EXCEPT ![t] = "push_sleep"]
             /\ UNCHANGED q2
    /\ UNCHANGED <<cfgVars, q1, q1_unfinished, aqVars, pump_x, pump_neos, mapVars,
                   outVars, statVars, genVars, histVars, testVars>>

\* await asyncio.sleep(dt) of the final push_to_dst is over
PumpPushWake(t) ==
    /\ pump_pc[t] = "push_sleep"
    /\ pump_pc' = [pump_pc EXCEPT ![t] = "push_eos"]
    /\ UNCHANGED <<cfgVars, qVars, aqVars, pump_x, pump_neos, mapVars, outVars,
                   statVars, genVars, histVars, testVars>>

(* ------------------------- AsyncWorkerPool.map ------------------------ *)
\* (mutant) one marker too many
Chain_ExtraMarker(its, ww) == its \o [i \in 1..Cardinality(ww) + 1 |-> EOS_MARKER]

\* (mutant) a single marker for all the workers
Chain_OneMarker(its, ww) == its \o <<EOS_MARKER>>

\* its = itertools.chain(its, [EOS_MARKER]*len(workers))
Chain(its, ww) == its \o [i \in 1..Cardinality(ww) |-> EOS_MARKER]

\* Future.done() of the job of thread w
done(w) == pump_pc[w] \in {"done", "failed"}

\* prune_workers
prune_workers(ww) == {w \in ww : ~done(w)}

\* (mutant) the final loop stops as soon as no worker is left
MapFinished_WorkersOnly(ww, outq) == ww = {}

\* (mutant) the final loop stops as soon as the result queue is found empty
MapFinished_OutqOnly(ww, outq) == Empty(outq)

\* the exit condition of the final loop: len(workers) == 0 and outq.empty()
MapFinished(ww, outq) == ww = {} /\ Empty(outq)

\* yield outq.get_nowait(): queue.Empty would be raised to the caller
Yield(next_pc) ==
    IF Empty(q2)
    THEN /\ g_pc' = "raised_empty"
         /\ UNCHANGED <<q2, yielded>>
    ELSE /\ q2' = Tail(q2)
         /\ yielded' = yielded (+) SetToBag({Head(q2)})
         /\ g_pc' = next_pc

\* A call of map up to the `for` loop: one job per loop is submitted to the
\* executor and the markers are chained to the caller's items.
GenMapOn(S) ==
    /\ g_pc \in {"idle", "done"}
    /\ calls < max_calls
    /\ calls' = calls + 1
    /\ \E its \in S :
        /\ input' = its
        /\ g_its' = Chain(its, Threads)
    /\ workers' = Threads
    /\ pump_pc' = [t \in Threads |-> "start"]
    /\ yielded' = EmptyBag
    /\ dropped' = EmptyBag
    /\ invoked' = EmptyBag
    /\ g_pc' = "for"
    /\ UNCHANGED <<cfgVars, qVars, aqVars, pump_x, pump_neos, mapVars, outVars,
                   statVars, g_x, g_n, g_i, testVars>>

\* map(func, its) on one of the short inputs
GenMap == GenMapOn(InputsOf(calls + 1))

\* for x in its
GenFor ==
    /\ g_pc = "for"
    /\ IF g_its = <<>>
       THEN /\ g_pc' = "drain"
            /\ UNCHANGED <<g_its, g_x>>
       ELSE /\ g_x' = Head(g_its)
            /\ g_its' = Tail(g_its)
            /\ g_pc' = "full"
    /\ UNCHANGED <<cfgVars, qVars, aqVars, pumpVars, mapVars, outVars, statVars,
                   g_n, g_i, workers, histVars, testVars>>

\* while feedq.full(): n = 0
GenFull ==
    /\ g_pc = "full"
    /\ IF Full(q1, max_buffer)
       THEN g_pc' = "inner_full" /\ g_n' = 0
       ELSE g_pc' = "put" /\ UNCHANGED g_n
    /\ UNCHANGED <<cfgVars, qVars, aqVars, pumpVars, mapVars, outVars, statVars,
                   g_its, g_x, g_i, workers, histVars, testVars>>

\* while feedq.full() ...: the first operand of the inner loop's condition
GenInnerFull ==
    /\ g_pc = "inner_full"
    /\ g_pc' = IF Full(q1, max_buffer) THEN "inner_empty" ELSE "check"
    /\ UNCHANGED <<cfgVars, qVars, aqVars, pumpVars, mapVars, outVars, statVars,
                   g_its, g_x, g_n, g_i, workers, histVars, testVars>>

\* (mutant) the inner loop yields without looking at outq.empty()
GenInnerEmpty_NoCheck ==
    /\ g_pc = "inner_empty"
    /\ g_pc' = "yield_full"
    /\ g_n' = g_n + 1
    /\ UNCHANGED <<cfgVars, qVars, aqVars, pumpVars, mapVars, outVars, statVars,
                   g_its, g_x, g_i, workers, histVars, testVars>>

\* ... and not outq.empty(): n += 1; nout += 1
GenInnerEmpty ==
    /\ g_pc = "inner_empty"
    /\ IF ~Empty(q2)
       THEN g_pc' = "yield_full" /\ g_n' = g_n + 1
       ELSE g_pc' = "check" /\ UNCHANGED g_n
    /\ UNCHANGED <<cfgVars, qVars, aqVars, pumpVars, mapVars, outVars, statVars,
                   g_its, g_x, g_i, workers, histVars, testVars>>

\* yield outq.get_nowait() of the inner loop
GenYieldFull ==
    /\ g_pc = "yield_full"
    /\ Yield("inner_full")
    /\ UNCHANGED <<cfgVars, q1, q1_unfinished, aqVars, pumpVars, mapVars, outVars,
                   statVars, g_its, g_x, g_n, g_i, workers, input, dropped, calls,
                   invoked, testVars>>

\* (mutant) the generator sleeps whenever the feed queue is still full
GenCheck_SleepAlways ==
    /\ g_pc = "check"
    /\ g_pc' = IF Full(q1, max_buffer) THEN "sleep_full" ELSE "full"
    /\ UNCHANGED <<cfgVars, qVars, aqVars, pumpVars, mapVars, outVars, statVars,
                   g_its, g_x, g_n, g_i, workers, histVars, testVars>>

\* if feedq.full() and n == 0: sleep(dt)
GenCheck ==
    /\ g_pc = "check"
    /\ g_pc' = IF Full(q1, max_buffer) /\ g_n = 0 THEN "sleep_full" ELSE "full"
    /\ UNCHANGED <<cfgVars, qVars, aqVars, pumpVars, mapVars, outVars, statVars,
                   g_its, g_x, g_n, g_i, workers, histVars, testVars>>

\* sleep(dt) of the feeding loop is over
GenWakeFull ==
    /\ g_pc = "sleep_full"
    /\ g_pc' = "full"
    /\ UNCHANGED <<cfgVars, qVars, aqVars, pumpVars, mapVars, outVars, statVars,
                   g_its, g_x, g_n, g_i, workers, histVars, testVars>>

\* feedq.put_nowait(x): queue.Full would be raised to the caller
GenPut ==
    /\ g_pc = "put"
    /\ IF Full(q1, max_buffer)
       THEN /\ g_pc' = "raised_full"
            /\ UNCHANGED <<q1, q1_unfinished, g_x, g_i>>
       ELSE /\ q1' = Append(q1, g_x)
            /\ q1_unfinished' = q1_unfinished + 1
            /\ g_x' = None
            /\ g_i' = 0
            /\ g_pc' = "flush"
    /\ UNCHANGED <<cfgVars, q2, aqVars, pumpVars, mapVars, outVars, statVars,
                   g_its, g_n, workers, histVars, testVars>>

\* (mutant) the flush goes on as long as there is a result
GenFlush_NoLimit ==
    /\ g_pc = "flush"
    /\ IF Empty(q2)
       THEN g_pc' = "for" /\ UNCHANGED g_i
       ELSE g_pc' = "yield_flush" /\ g_i' = g_i + 1
    /\ UNCHANGED <<cfgVars, qVars, aqVars, pumpVars, mapVars, outVars, statVars,
                   g_its, g_x, g_n, workers, histVars, testVars>>

\* for _ in range(10): if outq.empty(): break; nout += 1
GenFlush ==
    /\ g_pc = "flush"
    /\ IF g_i = FlushLimit \/ Empty(q2)
       THEN g_pc' = "for" /\ UNCHANGED g_i
       ELSE g_pc' = "yield_flush" /\ g_i' = g_i + 1
    /\ UNCHANGED <<cfgVars, qVars, aqVars, pumpVars, mapVars, outVars, statVars,
                   g_its, g_x, g_n, workers, histVars, testVars>>

\* yield outq.get_nowait() of the flush
GenYieldFlush ==
    /\ g_pc = "yield_flush"
    /\ Yield("flush")
    /\ UNCHANGED <<cfgVars, q1, q1_unfinished, aqVars, pumpVars, mapVars, outVars,
                   statVars, g_its, g_x, g_n, g_i, workers, input, dropped, calls,
                   invoked, testVars>>

\* while not (len(workers) == 0 and outq.empty()): n = 0
GenDrain ==
    /\ g_pc = "drain"
    /\ IF MapFinished(workers, q2)
       THEN g_pc' = "done" /\ UNCHANGED g_n
       ELSE g_pc' = "drain_empty" /\ g_n' = 0
    /\ UNCHANGED <<cfgVars, qVars, aqVars, pumpVars, mapVars, outVars, statVars,
                   g_its, g_x, g_i, workers, histVars, testVars>>

\* while not outq.empty(): nout += 1; n += 1
GenDrainEmpty ==
    /\ g_pc = "drain_empty"
    /\ IF ~Empty(q2)
       THEN g_pc' = "yield_drain" /\ g_n' = g_n + 1
       ELSE g_pc' = "prune" /\ UNCHANGED g_n
    /\ UNCHANGED <<cfgVars, qVars, aqVars, pumpVars, mapVars, outVars, statVars,
                   g_its, g_x, g_i, workers, histVars, testVars>>

\* workers = prune_workers(workers); if len(workers) and n == 0: sleep(dt)
GenPrune ==
    /\ g_pc = "prune"
    /\ workers' = prune_workers(workers)
    /\ g_pc' = IF prune_workers(workers) # {} /\ g_n = 0 THEN "sleep_drain" ELSE "drain"
    /\ UNCHANGED <<cfgVars, qVars, aqVars, pumpVars, mapVars, outVars, statVars,
                   g_its, g_x, g_n, g_i, histVars, testVars>>

\* yield outq.get_nowait() of the final loop
GenYieldDrain ==
    /\ g_pc = "yield_drain"
    /\ Yield("drain_empty")
    /\ UNCHANGED <<cfgVars, q1, q1_unfinished, aqVars, pumpVars, mapVars, outVars,
                   statVars, g_its, g_x, g_n, g_i, workers, input, dropped, calls,
                   invoked, testVars>>

\* sleep(dt) of the final loop is over
GenWakeDrain ==
    /\ g_pc = "sleep_drain"
    /\ g_pc' = "drain"
    /\ UNCHANGED <<cfgVars, qVars, aqVars, pumpVars, mapVars, outVars, statVars,
                   g_its, g_x, g_n, g_i, workers, histVars, testVars>>

\* One mapper of a pump (launched with eos_passthrough=False)
Mapper(t, k) ==
    \/ MapperGet(t, k)
    \/ MapperFuncReturn(t, k)
    \/ MapperFuncRaise(t, k)
    \/ MapperPut(t, k)

\* The steps of q2q_nmap on the loop of thread t: intake_loop and what follows
\* it, output_loop and the mappers.
Pump(t) ==
    \/ PumpStart(t)
    \/ IntakeGet(t)
    \/ IntakeWake(t)
    \/ IntakePut(t)
    \/ IntakePutEos(t)
    \/ IntakeJoin(t)
    \/ PumpPutEos(t)
    \/ PumpJoinOut(t)
    \/ OutputGet(t)
    \/ OutputPush(t)
    \/ OutputWake(t)
    \/ \E k \in Mappers : Mapper(t, k)

(* ------------------------------ the pool ------------------------------ *)
\* The body of the generator, from the `for` loop on
GenSteps ==
    \/ GenFor
    \/ GenFull
    \/ GenInnerFull
    \/ GenInnerEmpty
    \/ GenYieldFull
    \/ GenCheck
    \/ GenWakeFull
    \/ GenPut
    \/ GenFlush
    \/ GenYieldFlush
    \/ GenDrain
    \/ GenDrainEmpty
    \/ GenPrune
    \/ GenYieldDrain
    \/ GenWakeDrain

Generator == GenMap \/ GenSteps

\* AsyncWorkerPool.__init__: the state common to every specification
InitThreads(n) ==
    /\ aq_in = [t \in 1..n |-> <<>>]
    /\ aq_out = [t \in 1..n |-> <<>>]
    /\ aq_in_unfinished = [t \in 1..n |-> 0]
    /\ aq_out_unfinished = [t \in 1..n |-> 0]
    /\ aq_maxsize = [t \in 1..n |-> tasks * 2]
    /\ pump_x = [t \in 1..n |-> None]
    /\ pump_neos = [t \in 1..n |-> 0]
    /\ m_pc = [t \in 1..n |-> [k \in 1..tasks |-> "idle"]]
    /\ m_x = [t \in 1..n |-> [k \in 1..tasks |-> None]]
    /\ m_passthrough = [t \in 1..n |-> FALSE]
    /\ o_pc = [t \in 1..n |-> "idle"]
    /\ o_x = [t \in 1..n |-> None]
    /\ o_taken = [t \in 1..n |-> <<>>]
    /\ active = [t \in 1..n |-> 0]
    /\ max_active = [t \in 1..n |-> 0]

\* A pool AsyncWorkerPool(nthreads, tasks_per_thread, max_buffer) on which map
\* has not been called yet, and a caller who will call it ncalls times.
InitPool(ncalls) ==
    /\ nthreads \in 1..MaxThreads
    /\ tasks \in 1..MaxTasks
    /\ nthreads * tasks <= MaxMappers
    /\ max_buffer \in 1..MaxBuffer
    /\ eos_passthrough = FALSE
    /\ instrumented = FALSE
    /\ max_calls = ncalls
    /\ q1 = <<>>
    /\ q1_unfinished = 0
    /\ q2 = <<>>
    /\ InitThreads(nthreads)
    /\ pump_pc = [t \in 1..nthreads |-> "idle"]
    /\ g_pc = "idle"
    /\ g_its = <<>>
    /\ g_x = None
    /\ g_n = 0
    /\ g_i = 0
    /\ workers = {}
    /\ input = <<>>
    /\ yielded = EmptyBag
    /\ dropped = EmptyBag
    /\ invoked = EmptyBag
    /\ calls = 0
    /\ prod_pc = "off"
    /\ prod_i = 0
    /\ cons_pc = "off"
    /\ xx = <<>>
    /\ test_pc = "off"

Init == InitPool(1)

Next ==
    \/ Generator
    \/ \E t \in Threads : Pump(t)

Spec == Init /\ [][Next]_vars

\* The main coroutine of a job: q2q_nmap with its intake_loop
PumpMain(t) ==
    \/ PumpStart(t)
    \/ IntakeGet(t)
    \/ IntakeWake(t)
    \/ IntakePut(t)
    \/ IntakePutEos(t)
    \/ IntakeJoin(t)
    \/ PumpPutEos(t)
    \/ PumpJoinOut(t)

\* The task of output_loop
Output(t) == OutputGet(t) \/ OutputPush(t) \/ OutputWake(t)

\* Scheduling: the caller keeps iterating the generator, the executor runs
\* every submitted job on a thread of its own, the event loop of a thread
\* runs every task that is ready, and a call of the mapping function ends.
Fairness ==
    /\ WF_vars(Generator)
    /\ \A t \in 1..MaxThreads :
        /\ WF_vars(t \in Threads /\ PumpMain(t))
        /\ WF_vars(t \in Threads /\ Output(t))
        /\ \A k \in 1..MaxTasks : WF_vars(t \in Threads /\ k \in Mappers /\ Mapper(t, k))

FairSpec == Init /\ [][Next]_vars /\ Fairness

\* The pool is used for several calls of map, one after the other.
InitReuse == InitPool(MaxCalls)

SpecReuse == InitReuse /\ [][Next]_vars

(* ------------------------ map over a long input ----------------------- *)
\* A long input: n copies of one item.
InputsLong(n) == {[i \in 1..n |-> Item(1)]}

\* map(func, its) on an input longer than the whole pipeline can hold
GenMapLong == GenMapOn(InputsLong(LongItems))

\* map(func, its) on an input longer than what one flush yields
GenMapFlush == GenMapOn(InputsLong(FlushItems))

\* AsyncWorkerPool(1, 1, max_buffer), max_buffer one of B; one call of map.
InitLongOn(B) ==
    /\ nthreads = 1
    /\ tasks = 1
    /\ max_buffer \in B
    /\ eos_passthrough = FALSE
    /\ instrumented = FALSE
    /\ max_calls = 1
    /\ q1 = <<>>
    /\ q1_unfinished = 0
    /\ q2 = <<>>
    /\ InitThreads(1)
    /\ pump_pc = [t \in 1..1 |-> "idle"]
    /\ g_pc = "idle"
    /\ g_its = <<>>
    /\ g_x = None
    /\ g_n = 0
    /\ g_i = 0
    /\ workers = {}
    /\ input = <<>>
    /\ yielded = EmptyBag
    /\ dropped = EmptyBag
    /\ invoked = EmptyBag
    /\ calls = 0
    /\ prod_pc = "off"
    /\ prod_i = 0
    /\ cons_pc = "off"
    /\ xx = <<>>
    /\ test_pc = "off"

\* Queues much shorter than the input.
InitLong == InitLongOn({1})

NextLong ==
    \/ GenMapLong
    \/ GenSteps
    \/ Pump(1)

SpecLong == InitLong /\ [][NextLong]_vars

\* Queues that hold more results than one flush yields.
InitFlush == InitLongOn({FlushBuffer})

\* A mapping function that never raises.
NextFlush ==
    \/ GenMapFlush
    \/ GenSteps
    \/ PumpMain(1)
    \/ Output(1)
    \/ MapperGet(1, 1)
    \/ MapperFuncReturn(1, 1)
    \/ MapperPut(1, 1)

SpecFlush == InitFlush /\ [][NextFlush]_vars

\* A job raises outside the try of async_q2q_map (the mapping function raises
\* something that is not an Exception, say): run_until_complete raises, the
\* loop of the thread stops and the Future of the job holds the exception.
PumpFail(t) ==
    /\ LoopRunning(t)
    /\ pump_pc' = [pump_pc EXCEPT ![t] = "failed"]
    /\ UNCHANGED <<cfgVars, qVars, aqVars, pump_x, pump_neos, mapVars, outVars,
                   statVars, genVars, histVars, testVars>>

NextFail ==
    \/ Next
    \/ \E t \in Threads : PumpFail(t)

SpecFail == Init /\ [][NextFail]_vars

(* --------------------- test_q2qnmap: one pump alone ------------------- *)
\* run_producer: q.put(i) for the items, q.put(eos_marker), then q.join()
ProducerPut ==
    /\ prod_pc = "put"
    /\ ~Full(q1, max_buffer)
    /\ q1' = Append(q1, IF prod_i < Len(input) THEN input[prod_i + 1] ELSE EOS_MARKER)
    /\ q1_unfinished' = q1_unfinished + 1
    /\ prod_i' = prod_i + 1
    /\ prod_pc' = IF prod_i < Len(input) THEN "put" ELSE "join"
    /\ UNCHANGED <<cfgVars, q2, aqVars, pumpVars, mapVars, outVars, statVars,
                   genVars, histVars, cons_pc, xx, test_pc>>

\* q.join() of run_producer returns
ProducerJoin ==
    /\ prod_pc = "join"
    /\ q1_unfinished = 0
    /\ prod_pc' = "done"
    /\ UNCHANGED <<cfgVars, qVars, aqVars, pumpVars, mapVars, outVars, statVars,
                   genVars, histVars, prod_i, cons_pc, xx, test_pc>>

\* run_consumer: x = q.get(); xx.append(x); stop on the marker
ConsumerGet ==
    /\ cons_pc = "get"
    /\ ~Empty(q2)
    /\ q2' = Tail(q2)
    /\ xx' = Append(xx, Head(q2))
    /\ cons_pc' = IF Head(q2) = EOS_MARKER THEN "done" ELSE "get"
    /\ UNCHANGED <<cfgVars, q1, q1_unfinished, aqVars, pumpVars, mapVars, outVars,
                   statVars, genVars, histVars, prod_pc, prod_i, test_pc>>

\* run_test after `await q2q_nmap(...)`: dst.put(EOS_MARKER) when the pump was
\* told not to pass the marker through
RunTestPut ==
    /\ test_pc = "await"
    /\ pump_pc[1] = "done"
    /\ IF eos_passthrough
       THEN UNCHANGED q2
       ELSE ~Full(q2, max_buffer) /\ q2' = Append(q2, EOS_MARKER)
    /\ test_pc' = "result"
    /\ UNCHANGED <<cfgVars, q1, q1_unfinished, aqVars, pumpVars, mapVars, outVars,
                   statVars, genVars, histVars, prod_pc, prod_i, cons_pc, xx>>

\* return xx.result()
RunTestResult ==
    /\ test_pc = "result"
    /\ cons_pc = "done"
    /\ test_pc' = "done"
    /\ UNCHANGED <<cfgVars, qVars, aqVars, pumpVars, mapVars, outVars, statVars,
                   genVars, histVars, prod_pc, prod_i, cons_pc, xx>>

\* run(N, nconcurrent, delay, eos_passthrough) of test_q2qnmap: a producer
\* thread, a consumer thread and q2q_nmap on the loop of the main thread
InitPump ==
    /\ nthreads = 1
    /\ tasks \in 1..MaxTasks
    /\ max_buffer \in 1..MaxBuffer
    /\ eos_passthrough \in BOOLEAN
    /\ instrumented = TRUE
    /\ max_calls = 0
    /\ q1 = <<>>
    /\ q1_unfinished = 0
    /\ q2 = <<>>
    /\ InitThreads(1)
    /\ pump_pc = [t \in 1..1 |-> "start"]
    /\ g_pc = "off"
    /\ g_its = <<>>
    /\ g_x = None
    /\ g_n = 0
    /\ g_i = 0
    /\ workers = {}
    /\ input \in Inputs
    /\ yielded = EmptyBag
    /\ dropped = EmptyBag
    /\ invoked = EmptyBag
    /\ calls = 0
    /\ prod_pc = "put"
    /\ prod_i = 0
    /\ cons_pc = "get"
    /\ xx = <<>>
    /\ test_pc = "await"

NextPump ==
    \/ Pump(1)
    \/ PumpPushEos(1)
    \/ PumpPushWake(1)
    \/ ProducerPut
    \/ ProducerJoin
    \/ ConsumerGet
    \/ RunTestPut
    \/ RunTestResult

SpecPump == InitPump /\ [][NextPump]_vars

\* Scheduling of the pump test: the loop of the main thread runs every task
\* that is ready, a call of the mapping function ends, and the producer and
\* the consumer threads keep running.
FairnessPump ==
    /\ WF_vars(PumpMain(1) \/ PumpPushEos(1) \/ PumpPushWake(1))
    /\ WF_vars(Output(1))
    /\ \A k \in 1..MaxTasks : WF_vars(k \in Mappers /\ Mapper(1, k))
    /\ WF_vars(ProducerPut \/ ProducerJoin)
    /\ WF_vars(ConsumerGet)
    /\ WF_vars(RunTestPut \/ RunTestResult)

FairSpecPump == InitPump /\ [][NextPump]_vars /\ FairnessPump

(* ------------------- test_q2q_map: one mapper alone ------------------- *)
\* await q1.join() of run_test, after async_q2q_map has returned
MapTestJoin ==
    /\ test_pc = "mapper"
    /\ m_pc[1][1] = "done"
    /\ aq_in_unfinished[1] = 0
    /\ test_pc' = "collect"
    /\ UNCHANGED <<cfgVars, qVars, aqVars, pumpVars, mapVars, outVars, statVars,
                   genVars, histVars, prod_pc, prod_i, cons_pc, xx>>

\* while not q2.empty(): xx.append(q2.get_nowait())
MapTestCollect ==
    /\ test_pc = "collect"
    /\ xx' = xx \o aq_out[1]
    /\ aq_out' = [aq_out EXCEPT ![1] = <<>>]
    /\ test_pc' = "done"
    /\ UNCHANGED <<cfgVars, qVars, aq_in, aq_in_unfinished, aq_out_unfinished,
                   aq_maxsize, pumpVars, mapVars, outVars, statVars, genVars,
                   histVars, prod_pc, prod_i, cons_pc>>

\* run(**kwargs) of test_q2q_map: two asyncio queues of size 10, the input
\* queue preloaded with the items and the marker, one async_q2q_map
InitMapper ==
    /\ nthreads = 1
    /\ tasks = 1
    /\ max_buffer = TestQueueSize
    /\ eos_passthrough = FALSE
    /\ instrumented = FALSE
    /\ max_calls = 0
    /\ q1 = <<>>
    /\ q1_unfinished = 0
    /\ q2 = <<>>
    /\ input \in InputsMapper
    /\ aq_in = [t \in 1..1 |-> input \o <<EOS_MARKER>>]
    /\ aq_in_unfinished = [t \in 1..1 |-> Len(input) + 1]
    /\ aq_out = [t \in 1..1 |-> <<>>]
    /\ aq_out_unfinished = [t \in 1..1 |-> 0]
    /\ aq_maxsize = [t \in 1..1 |-> TestQueueSize]
    /\ pump_pc = [t \in 1..1 |-> "test"]
    /\ pump_x = [t \in 1..1 |-> None]
    /\ pump_neos = [t \in 1..1 |-> 0]
    /\ m_pc = [t \in 1..1 |-> [k \in 1..1 |-> "get"]]
    /\ m_x = [t \in 1..1 |-> [k \in 1..1 |-> None]]
    /\ m_passthrough \in [1..1 -> BOOLEAN]
    /\ o_pc = [t \in 1..1 |-> "idle"]
    /\ o_x = [t \in 1..1 |-> None]
    /\ o_taken = [t \in 1..1 |-> <<>>]
    /\ active = [t \in 1..1 |-> 0]
    /\ max_active = [t \in 1..1 |-> 0]
    /\ g_pc = "off"
    /\ g_its = <<>>
    /\ g_x = None
    /\ g_n = 0
    /\ g_i = 0
    /\ workers = {}
    /\ yielded = EmptyBag
    /\ dropped = EmptyBag
    /\ invoked = EmptyBag
    /\ calls = 0
    /\ prod_pc = "off"
    /\ prod_i = 0
    /\ cons_pc = "off"
    /\ xx = <<>>
    /\ test_pc = "mapper"

NextMapper ==
    \/ Mapper(1, 1)
    \/ MapperPutEos(1, 1)
    \/ MapTestJoin
    \/ MapTestCollect

SpecMapper == InitMapper /\ [][NextMapper]_vars

(* ============================== claims ================================ *)
\* What map owes its caller for the current call: function(item) per item.
Expected == SeqToBag(MapSeq(input))

\* The results of the items whose mapping raised.
DroppedResults == SeqToBag(MapSeq(BagToSeq(dropped)))

\* The generator of the current call is exhausted.
MapDone == g_pc = "done"

\* C1: when the mapping function never raised, a finished map has yielded
\* exactly the multiset of function(item) over its input items: as many
\* results as items, none lost, none duplicated, no end-of-stream marker; and
\* at no moment has it yielded something that is not owed.
C1_MapYieldsAll ==
    /\ yielded \sqsubseteq Expected
    /\ (MapDone /\ dropped = EmptyBag) =>
         /\ yielded = Expected
         /\ BagCardinality(yielded) = Len(input)
         /\ ~BagIn(EOS_MARKER, yielded)

\* C1 witness: a map over two threads with more items than the channels hold
\* has finished without a mapper failure and has yielded every result.
C1_Witness ==
    /\ MapDone
    /\ dropped = EmptyBag
    /\ nthreads = 2
    /\ Len(input) = 2
    /\ max_buffer < Len(input)
    /\ BagCardinality(yielded) = 2

\* C2: under fair scheduling every call of map on a finite input finishes,
\* whatever the number of threads, of tasks and the capacity of the channels.
C2_MapTerminates == (g_pc = "for") ~> MapDone

\* C2 witness: both channels are full at once (there are more items than a
\* channel holds) and the generator, instead of blocking on the feed channel,
\* is about to yield a result.
C2_Witness ==
    /\ g_pc = "yield_full"
    /\ Full(q1, max_buffer)
    /\ Full(q2, max_buffer)
    /\ Len(input) > max_buffer

\* C3: every bounded channel holds at most its capacity: the two shared
\* channels at most max_buffer items, the two private channels of each thread
\* at most 2 * nconcurrent items.
C3_ChannelCapacity ==
    /\ Len(q1) <= max_buffer
    /\ Len(q2) <= max_buffer
    /\ \A t \in Threads :
        /\ Len(aq_in[t]) <= 2 * tasks
        /\ Len(aq_out[t]) <= 2 * tasks

\* C3 witness: with more items than the feed channel holds, the feed channel
\* and the private input channel of a thread are both filled to capacity.
C3_Witness ==
    /\ Len(input) > max_buffer
    /\ Len(q1) = max_buffer
    /\ \E t \in Threads : LoopRunning(t) /\ Len(aq_in[t]) = 2 * tasks

\* C4: in a pump the invocations of the mapping function that are active at
\* the same time are those of the mappers suspended in it, and neither their
\* number nor the peak the function records exceeds nconcurrent.
C4_ConcurrencyBound ==
    /\ active[1] = Cardinality({k \in Mappers : m_pc[1][k] = "func"})
    /\ active[1] <= tasks
    /\ max_active[1] <= tasks

\* C4 witness: with two mappers, two invocations are active at once.
C4_Witness ==
    /\ tasks = 2
    /\ active[1] = 2

\* C5 (as claimed): whenever there are at least nconcurrent items, the peak
\* the mapping function has recorded when the run is over is greater than 1.
C5_PeakAboveOne ==
    (test_pc = "done" /\ Len(input) >= tasks) => max_active[1] > 1

\* C5 (amended): the recorded peak never exceeds min(n, nconcurrent), so it
\* is greater than 1 only with at least two mappers and two items; when the
\* run is over and there was an item, it is at least 1.
C5_PeakBounds ==
    /\ max_active[1] <= Min(tasks, Len(input))
    /\ (test_pc = "done" /\ Len(input) >= 1) => max_active[1] >= 1

\* C5 witness: a finished run with two mappers and two items in which the two
\* invocations did not overlap, so the recorded peak is 1.
C5_Witness ==
    /\ test_pc = "done"
    /\ tasks = 2
    /\ Len(input) = 2
    /\ max_active[1] = 1

\* The safety half of C6.
C6_OneResultPerSuccess ==
    /\ yielded \sqsubseteq (Expected (-) DroppedResults)
    /\ MapDone => yielded (+) DroppedResults = Expected
    /\ \A t \in Threads : pump_pc[t] # "failed"

\* C6: an item whose mapping raises gives no result and an item whose mapping
\* succeeds gives exactly one; the job does not fail, and once a mapping has
\* raised, map still finishes (with the results of the other items).
C6_MapperFailureContained ==
    /\ []C6_OneResultPerSuccess
    /\ (dropped # EmptyBag) ~> MapDone

\* C6 witness: the only mapper of the only thread failed on the first item,
\* went on to map the second one, and map finished with that one result.
C6_Witness ==
    /\ MapDone
    /\ nthreads = 1
    /\ tasks = 1
    /\ input = <<Item(1), Item(2)>>
    /\ dropped = SetToBag({Item(1)})
    /\ yielded = SetToBag({proc(Item(2))})

\* The generator is in the feeding loop, the feed channel is full, there is
\* nothing to drain and no job is left that could take an item: it sleeps and
\* retries for ever.
GenHung ==
    /\ g_pc \in {"full", "inner_full", "inner_empty", "check", "sleep_full"}
    /\ Full(q1, max_buffer)
    /\ Empty(q2)
    /\ \A t \in Threads : done(t)

\* C7 (as claimed): when a job has failed, map neither finishes as if nothing
\* had happened (the failure is raised to its caller) nor hangs.
C7_FailureSurfaced ==
    (\E t \in Threads : pump_pc[t] = "failed") => ~MapDone /\ ~GenHung

\* All that was written to the blocking result channel of the pump test.
Out == xx \o q2

EosCount(s) == Cardinality({i \in 1..Len(s) : s[i] = EOS_MARKER})

\* C8: with pass-through the pump writes exactly one marker to the blocking
\* result channel, after the results of all the items it took, so that the
\* marker is the last thing the consumer gets; without pass-through the pump
\* writes no marker (the only one is the one the test adds after the pump).
C8_TerminatorLast ==
    /\ EosCount(Out) <= 1
    /\ \A i \in 1..Len(Out) :
        Out[i] = EOS_MARKER =>
            /\ i = Len(Out)
            /\ SeqToBag(SubSeq(Out, 1, i - 1)) (+) DroppedResults = Expected
    /\ (eos_passthrough /\ pump_pc[1] = "done") => EosCount(Out) = 1
    /\ (~eos_passthrough /\ test_pc = "await") => EosCount(Out) = 0
    /\ (test_pc = "done") => xx[Len(xx)] = EOS_MARKER

\* C8 witness: a pump with two mappers and pass-through has run over two
\* items, and the consumer has got the two results and then the marker.
C8_Witness ==
    /\ eos_passthrough
    /\ test_pc = "done"
    /\ tasks = 2
    /\ Len(input) = 2
    /\ Len(xx) = 3
    /\ xx[3] = EOS_MARKER

\* C9: a single mapper whose function never raises puts function(x1), ...,
\* function(xn) on the output channel in input order, followed by the marker
\* with pass-through and by nothing without; when it has returned, every item
\* of the input channel, the marker included, has been acknowledged.
C9_MapperInOrder ==
    /\ m_pc[1][1] = "done" => aq_in[1] = <<>> /\ aq_in_unfinished[1] = 0
    /\ (test_pc = "done" /\ dropped = EmptyBag) =>
         xx = MapSeq(input) \o (IF m_passthrough[1] THEN <<EOS_MARKER>> ELSE <<>>)

\* C9 witness: the test's run over four items with pass-through is over.
C9_Witness ==
    /\ test_pc = "done"
    /\ Len(input) = 4
    /\ m_passthrough[1]
    /\ dropped = EmptyBag
    /\ Len(xx) = 5

\* The two shared channels are empty and every job is over.
PoolIdle ==
    /\ q1 = <<>>
    /\ q1_unfinished = 0
    /\ q2 = <<>>
    /\ workers = {}
    /\ \A t \in Threads : pump_pc[t] = "done"

\* C10: when a call of map is over the pool is idle again, nothing left in
\* its channels; and every call, the first and the later ones, has yielded the
\* results of its own input and nothing else.
C10_PoolReusable ==
    MapDone => PoolIdle /\ yielded (+) DroppedResults = Expected

\* C10 witness: the second call, on two threads and two fresh items, is over
\* and has yielded the results of these two items.
C10_Witness ==
    /\ MapDone
    /\ calls = 2
    /\ nthreads = 2
    /\ dropped = EmptyBag
    /\ input = <<Item(MaxItems + 1), Item(MaxItems + 2)>>
    /\ yielded = SeqToBag(<<proc(Item(MaxItems + 1)), proc(Item(MaxItems + 2))>>)

\* Nothing, item or result, is held anywhere between the caller's iterator
\* and the caller of the generator.
NothingInFlight ==
    /\ q1 = <<>>
    /\ q2 = <<>>
    /\ \A t \in Threads :
        /\ aq_in[t] = <<>>
        /\ aq_out[t] = <<>>
        /\ pump_x[t] = None
        /\ o_x[t] = None
        /\ \A k \in Mappers : m_x[t][k] = None

\* C11: the generator of map is exhausted only when every one of the jobs
\* has finished and the result queue is empty, and then no item and no result
\* is left anywhere in the pipeline.
C11_FinishedMeansDrained ==
    MapDone =>
        /\ \A t \in Threads : done(t)
        /\ Empty(q2)
        /\ NothingInFlight

\* C11 witness: the generator has found the result queue empty and is about to
\* prune the workers; meanwhile the last job has pushed a result and finished.
C11_Witness ==
    /\ g_pc = "prune"
    /\ workers # {}
    /\ \A t \in Threads : done(t)
    /\ ~Empty(q2)
    /\ nthreads = 2

\* What one call of map owes the feed queue, in order: the caller's items, then
\* one end-of-stream marker per thread.
FeedOrder == input \o [i \in 1..nthreads |-> EOS_MARKER]

\* How many of them map has put on the feed queue so far.
FedCount == Len(FeedOrder) - Len(g_its) - (IF g_x = None THEN 0 ELSE 1)

\* How many of them have been taken from the feed queue so far.
TakenCount == FedCount - Len(q1)

\* The intake loop of thread t has taken an end-of-stream marker from the feed.
PastIntake(t) ==
    pump_pc[t] \in {"eos", "join", "term", "join_out", "push_eos", "push_sleep", "done"}

\* C12: map puts the caller's items on the feed queue in iteration order and
\* then exactly one marker per thread; they leave the feed queue in that
\* order, so every item is taken before any marker; every marker taken has
\* stopped the intake of one thread, and at the end each thread has taken one.
C12_FeedOrder ==
    g_pc # "idle" =>
        /\ FedCount \in 0..Len(FeedOrder)
        /\ TakenCount \in 0..FedCount
        /\ (IF g_x = None THEN <<>> ELSE <<g_x>>) \o g_its
             = SubSeq(FeedOrder, FedCount + 1, Len(FeedOrder))
        /\ q1 = SubSeq(FeedOrder, TakenCount + 1, FedCount)
        /\ Cardinality({t \in Threads : PastIntake(t)})
             = Max(0, TakenCount - Len(input))
        /\ \A t \in Threads : pump_pc[t] = "put" => pump_x[t] \notin {EOS_MARKER, None}
        /\ MapDone =>
             /\ TakenCount = Len(FeedOrder)
             /\ \A t \in Threads : PastIntake(t)

\* C12 witness: two items and two markers were fed to two threads; one thread
\* has taken its marker, the marker of the other is the only thing left on the
\* feed queue.
C12_Witness ==
    /\ nthreads = 2
    /\ Len(input) = 2
    /\ q1 = <<EOS_MARKER>>
    /\ FedCount = 4
    /\ \E t \in Threads : PastIntake(t)
    /\ \E t \in Threads : pump_pc[t] = "sleep"

\* C13: over all threads and mappers the mapping function is called exactly
\* once with every item fed: never with something that was not fed, never a
\* second time with the same item, and when map is over with every item.
C13_InvokedOnce ==
    /\ invoked \sqsubseteq SeqToBag(input)
    /\ MapDone => invoked = SeqToBag(input)

\* C13 witness: two threads have shared two items, one call each, one of which
\* raised; map is over.
C13_Witness ==
    /\ MapDone
    /\ nthreads = 2
    /\ input = <<Item(1), Item(2)>>
    /\ invoked = SeqToBag(<<Item(1), Item(2)>>)
    /\ BagCardinality(dropped) = 1

\* The items of a queue, its end-of-stream markers left out.
NonEos(s) == SelectSeq(s, LAMBDA x : x # EOS_MARKER)

\* The mappers of thread t that have returned.
MappersDone(t) == {k \in Mappers : m_pc[t][k] = "done"}

\* How many markers the intake loop of thread t has put on aq_in so far.
EosPut(t) ==
    IF pump_pc[t] \in {"start", "poll", "sleep", "put"} THEN 0
    ELSE IF pump_pc[t] = "eos" THEN tasks - pump_neos[t]
    ELSE tasks

\* q2q_nmap of thread t is past `await intake_loop(...)`.
PastJoin(t) == pump_pc[t] \in {"term", "join_out", "push_eos", "push_sleep", "done"}

\* C14: the intake loop of a pump with K mappers puts K markers on aq_in, no
\* more and no less, after every item it took has been put there; every marker
\* put is still in the queue or has stopped one mapper, and once the intake
\* loop has returned all K mappers have stopped and aq_in is empty.
C14_OneMarkerPerMapper ==
    /\ EosCount(aq_in[1]) + Cardinality(MappersDone(1)) = EosPut(1)
    /\ \A i, j \in 1..Len(aq_in[1]) :
         (i < j /\ aq_in[1][i] = EOS_MARKER) => aq_in[1][j] = EOS_MARKER
    /\ EosPut(1) > 0 =>
         /\ pump_x[1] = None
         /\ SeqToBag(NonEos(aq_in[1])) (+) invoked = SeqToBag(input)
    /\ PastJoin(1) =>
         /\ EosPut(1) = tasks
         /\ MappersDone(1) = Mappers
         /\ aq_in[1] = <<>>

\* C14 witness: a pump with two mappers has put its two markers behind two
\* items; one mapper has stopped on the first marker, the other one is still
\* inside the mapping function and the second marker waits in aq_in.
C14_Witness ==
    /\ tasks = 2
    /\ Len(input) = 2
    /\ pump_pc[1] = "join"
    /\ aq_in[1] = <<EOS_MARKER>>
    /\ \E k \in Mappers : m_pc[1][k] = "done"
    /\ \E k \in Mappers : m_pc[1][k] = "func"

\* A step in which an end-of-stream marker leaves the head of queue q.
MarkerLeaves(q, qnext) ==
    /\ q # <<>>
    /\ Head(q) = EOS_MARKER
    /\ qnext = Tail(q)

\* What C15 asks of one step of thread t.
StopAtMarker(t) ==
    /\ PastIntake(t) => PastIntake(t)' /\ pump_x'[t] = None
    /\ o_pc[t] = "done" => o_pc'[t] = "done" /\ o_x'[t] = None
    /\ \A k \in Mappers :
         m_pc[t][k] = "done" => m_pc'[t][k] = "done" /\ m_x'[t][k] = None
    /\ MarkerLeaves(aq_in[t], aq_in'[t]) =>
         \E k \in Mappers : m_pc[t][k] = "get" /\ m_pc'[t][k] = "done"
    /\ MarkerLeaves(aq_out[t], aq_out'[t]) =>
         o_pc[t] = "get" /\ o_pc'[t] = "done"

\* C15: a consumer that takes an end-of-stream marker from its queue stops
\* there: the mapper that takes one from aq_in returns, the intake loop that
\* takes one from the feed queue leaves its polling loop, the output loop that
\* takes one from aq_out returns; and a consumer that has stopped stays
\* stopped, holding no item: it takes nothing, calls nothing, forwards nothing.
C15_StopAtMarker ==
    [][/\ \A t \in Threads : StopAtMarker(t)
       /\ MarkerLeaves(q1, q1') =>
            \E t \in Threads : pump_pc[t] = "poll" /\ pump_pc'[t] = "eos"
      ]_vars

\* C15 witness: of two threads one has stopped on its marker, its mapper and
\* its output loop as well, while the other one still holds an item to forward.
C15_Witness ==
    /\ nthreads = 2
    /\ \E t, u \in Threads :
        /\ pump_pc[t] = "done"
        /\ o_pc[t] = "done"
        /\ m_pc[t][1] = "done"
        /\ pump_pc[u] = "put"
        /\ q1 = <<EOS_MARKER>>

\* The bag of what a local variable holds.
Held(x) == IF x = None THEN EmptyBag ELSE SetToBag({x})

\* The markers put on aq_out of thread t so far: those still in the queue and
\* the one output_loop has taken.
EosOnOut(t) == EosCount(aq_out[t]) + (IF o_pc[t] = "done" THEN 1 ELSE 0)

\* The results of the pump test that have left the mappers: in aq_out, held by
\* output_loop, in the blocking result queue or with the consumer.
ResultsOut ==
    SeqToBag(NonEos(aq_out[1])) (+) Held(o_x[1]) (+) SeqToBag(NonEos(Out))

\* C16: q2q_nmap puts one marker on aq_out, no more, and only once the join
\* on aq_in has returned; from then on every mapper has acknowledged its marker
\* and returned, aq_in is empty with nothing unacknowledged, and the result of
\* every item the pump took (whose mapping did not raise) has been put on
\* aq_out; the marker sits behind these results.
C16_OutMarkerAfterBarrier ==
    /\ EosOnOut(1) =
         (IF pump_pc[1] \in {"join_out", "push_eos", "push_sleep", "done"} THEN 1 ELSE 0)
    /\ \A i \in 1..Len(aq_out[1]) :
         aq_out[1][i] = EOS_MARKER => i = Len(aq_out[1])
    /\ PastJoin(1) =>
         /\ aq_in_unfinished[1] = 0
         /\ aq_in[1] = <<>>
         /\ \A k \in Mappers : m_pc[1][k] = "done" /\ m_x[1][k] = None
         /\ invoked = SeqToBag(input)
         /\ ResultsOut (+) DroppedResults = Expected

\* C16 witness: the marker has been put on aq_out behind a result that
\* output_loop has not taken yet; both mappers have returned.
C16_Witness ==
    /\ tasks = 2
    /\ pump_pc[1] = "join_out"
    /\ Len(aq_out[1]) = 2
    /\ aq_out[1][1] # EOS_MARKER
    /\ aq_out[1][2] = EOS_MARKER
    /\ MappersDone(1) = Mappers

\* C17: output_loop returns only when it has pushed every result of the
\* mappers to the blocking result queue: when it has returned aq_out is empty
\* with nothing unacknowledged, it holds nothing, and the blocking result
\* queue has received all the results; and q2q_nmap returns (or goes on to
\* pass the marker through) only after output_loop has returned.
C17_OutputDrained ==
    /\ o_pc[1] = "done" =>
         /\ aq_out[1] = <<>>
         /\ aq_out_unfinished[1] = 0
         /\ o_x[1] = None
         /\ SeqToBag(NonEos(Out)) (+) DroppedResults = Expected
    /\ pump_pc[1] \in {"push_eos", "push_sleep", "done"} => o_pc[1] = "done"

\* C17 witness: q2q_nmap, without pass-through, has returned; no call raised,
\* and more results than the result queue holds have gone through it.
C17_Witness ==
    /\ pump_pc[1] = "done"
    /\ test_pc = "await"
    /\ ~eos_passthrough
    /\ o_pc[1] = "done"
    /\ dropped = EmptyBag
    /\ max_buffer = 1
    /\ Len(Out) = 2

\* The mappers of thread t that hold an item they have taken from aq_in and
\* not acknowledged yet: inside func, or waiting to put the result or the
\* marker on aq_out.
InFlight(t) == {k \in Mappers : m_pc[t][k] \in {"func", "put", "put_eos"}}

\* C18: the mapper acknowledges each item it takes from its input queue once,
\* whether func returned, func raised or the item was the marker, and not
\* before the output of that item, if there is one, has been put: the
\* unfinished count of the input queue is the number of items still in the
\* queue plus the number of items taken and still held, so that it is never
\* negative and is zero exactly when nothing is queued or held.
C18_AckOncePerItem ==
    /\ aq_in_unfinished[1] = Len(aq_in[1]) + Cardinality(InFlight(1))
    /\ aq_in_unfinished[1] >= 0
    /\ aq_in_unfinished[1] = 0 <=> (aq_in[1] = <<>> /\ InFlight(1) = {})

\* C18 witness: the three paths in one run: one call has raised, one result
\* was put, and the mapper now holds the marker it is to pass through, the only
\* thing left unacknowledged.
C18_Witness ==
    /\ test_pc = "mapper"
    /\ m_passthrough[1]
    /\ m_pc[1][1] = "put_eos"
    /\ BagCardinality(dropped) = 1
    /\ Len(aq_out[1]) >= 1
    /\ aq_in_unfinished[1] = 1

\* C19: the intake loop acknowledges each thing it takes from the feed queue
\* once, the marker at once and an item when it has been put on aq_in: the
\* unfinished count of the feed queue is what is still queued plus the item
\* the intake loop holds. A producer that has put its items and one marker and
\* then joins the feed queue is therefore released by a single pump: the join
\* can return as soon as the pump has taken the marker, and it returns only
\* when the pump has taken everything and forwarded every item.
C19_FeedAcknowledged ==
    /\ q1_unfinished = Len(q1) + (IF pump_pc[1] = "put" THEN 1 ELSE 0)
    /\ (prod_pc = "join" /\ PastIntake(1)) => q1_unfinished = 0
    /\ prod_pc = "done" =>
         /\ PastIntake(1)
         /\ q1 = <<>>
         /\ pump_x[1] = None
         /\ SeqToBag(NonEos(aq_in[1])) (+) invoked = SeqToBag(input)

\* C19 witness: the producer of two items has been released from its join
\* while the pump, which has taken the marker, has not yet put a marker on
\* aq_in.
C19_Witness ==
    /\ prod_pc = "done"
    /\ Len(input) = 2
    /\ pump_pc[1] = "eos"
    /\ pump_neos[1] = tasks

\* C20: a pump with K >= 1 mappers between a feed queue and a result queue
\* of any capacity >= 1 returns, under fair scheduling, when the producer puts
\* finitely many items and then a marker and the consumer keeps taking the
\* results; and it has not returned as long as the marker has not been put on
\* the feed queue and taken from it.
C20_PumpReturns ==
    /\ <>(pump_pc[1] = "done")
    /\ [](pump_pc[1] = "done" =>
            /\ prod_i = Len(input) + 1
            /\ q1 = <<>>
            /\ PastIntake(1))

\* C20 witness: two mappers, two items, queues of capacity one, the marker
\* passed through: the pump has returned and the consumer has got everything.
C20_Witness ==
    /\ pump_pc[1] = "done"
    /\ tasks = 2
    /\ max_buffer = 1
    /\ Len(input) = 2
    /\ eos_passthrough
    /\ cons_pc = "done"
    /\ Len(xx) = 3

\* What C21 asks of one step of the bridges of thread t: a get on the empty
\* feed queue or a put on the full result queue changes nothing and is
\* followed by a sleep, after which the same operation is tried again.
BridgeRetries(t) ==
    /\ (pump_pc[t] = "poll" /\ pump_pc'[t] # "poll" /\ Empty(q1)) =>
         pump_pc'[t] = "sleep" /\ q1' = q1 /\ pump_x'[t] = pump_x[t]
    /\ (pump_pc[t] = "sleep" /\ pump_pc'[t] # "sleep") => pump_pc'[t] = "poll"
    /\ (o_pc[t] = "push" /\ o_pc'[t] # "push" /\ Full(q2, max_buffer)) =>
         o_pc'[t] = "sleep" /\ q2' = q2 /\ o_x'[t] = o_x[t]
    /\ (o_pc[t] = "sleep" /\ o_pc'[t] # "sleep") => o_pc'[t] = "push"
    /\ pump_pc'[t] # "failed"

\* C21: in a run of map neither queue.Full nor queue.Empty is raised to the
\* caller: the generator never reaches put_nowait with the feed queue full nor
\* get_nowait with the result queue empty, whatever the threads do in between;
\* and the bridges answer a full or empty queue by sleeping and trying again.
C21_NoCapacityError ==
    /\ [](g_pc \notin {"raised_full", "raised_empty"})
    /\ [](g_pc = "put" => ~Full(q1, max_buffer))
    /\ [](g_pc \in {"yield_full", "yield_flush", "yield_drain"} => ~Empty(q2))
    /\ [][\A t \in Threads : BridgeRetries(t)]_vars

\* C21 witness: the generator is about to put on a feed queue with one free
\* slot while the result queue is full and the output loop of a thread, whose
\* put failed, sleeps before it tries again.
C21_Witness ==
    /\ g_pc = "put"
    /\ Len(q1) = max_buffer - 1
    /\ Full(q2, max_buffer)
    /\ nthreads = 2
    /\ \E t \in Threads : o_pc[t] = "sleep"
    /\ \E t \in Threads : pump_pc[t] = "sleep"

\* The generator moves to position pc in this step.
GenEnters(pc) == g_pc # pc /\ g_pc' = pc

\* What C22 asks of one step.
SleepOnlyWhenStarved ==
    \* the sleep of the feeding loop: feed queue full, nothing yielded this round
    /\ GenEnters("sleep_full") =>
         g_pc = "check" /\ Full(q1, max_buffer) /\ g_n = 0
    \* ... and a full feed queue is tested there only after the result queue
    \* was seen empty; nobody but the generator fills the feed queue
    /\ (GenEnters("check") /\ Full(q1, max_buffer)) =>
         g_pc = "inner_empty" /\ Empty(q2)
    /\ (g_pc = "check" /\ Full(q1', max_buffer)) => Full(q1, max_buffer)
    \* the sleep of the final loop: result queue seen empty, a job not done
    /\ GenEnters("sleep_drain") =>
         g_pc = "prune" /\ g_n = 0 /\ \E w \in workers : ~done(w)
    /\ GenEnters("prune") => g_pc = "drain_empty" /\ Empty(q2)
    \* feed queue seen full and a result there: the generator yields
    /\ (g_pc = "inner_empty" /\ g_pc' # g_pc /\ ~Empty(q2)) => g_pc' = "yield_full"
    /\ (g_pc = "drain_empty" /\ g_pc' # g_pc /\ ~Empty(q2)) => g_pc' = "yield_drain"

\* C22: the generator of map sleeps in two situations only: in the feeding
\* loop when the feed queue is full and it found no result to yield in this
\* round, and in the final loop when it found the result queue empty and a
\* job is still running. When it finds the feed queue full and a result in the
\* result queue it yields the result.
C22_SleepOnlyWhenStarved ==
    /\ [](g_pc \in {"sleep_full", "sleep_drain"} => g_n = 0)
    /\ [][SleepOnlyWhenStarved]_vars

\* C22 witness: the generator sleeps in the feeding loop, the feed queue full
\* and the result queue empty, two threads at work.
C22_Witness ==
    /\ g_pc = "sleep_full"
    /\ Full(q1, max_buffer)
    /\ Empty(q2)
    /\ nthreads = 2
    /\ \A t \in Threads : LoopRunning(t)

\* What C23 asks of one step: g_i counts the results yielded since the last
\* put on the feed queue.
FlushStep ==
    /\ (g_pc = "put" /\ g_pc' # "put") => g_pc' = "flush" /\ g_i' = 0
    /\ (g_pc = "flush" /\ g_pc' # "flush") =>
         \/ g_pc' = "yield_flush" /\ ~Empty(q2) /\ g_i < FlushLimit /\ g_i' = g_i + 1
         \/ g_pc' = "for" /\ (g_i = FlushLimit \/ Empty(q2)) /\ g_i' = g_i
    /\ (g_pc = "yield_flush" /\ g_pc' # "yield_flush") =>
         /\ g_pc' = "flush"
         /\ g_i' = g_i
         /\ BagCardinality(yielded') = BagCardinality(yielded) + 1
    /\ (g_pc \in {"flush", "yield_flush"} /\ g_pc' = g_pc) =>
         g_i' = g_i /\ yielded' = yielded

\* C23: after a put on the feed queue the generator yields at most 10 results
\* before it turns to the next item, and it stops yielding earlier as soon as
\* it finds the result queue empty.
C23_FlushAtMostTen ==
    /\ [](g_i \in 0..FlushLimit)
    /\ [](g_pc = "yield_flush" => g_i \in 1..FlushLimit /\ ~Empty(q2))
    /\ [][FlushStep]_vars

\* C23 witness: the flush has yielded its ten results and has stopped although
\* there is one more in the result queue; the generator turns to what is left
\* to feed.
C23_Witness ==
    /\ g_pc = "for"
    /\ g_i = FlushLimit
    /\ ~Empty(q2)
    /\ g_its # <<>>
    /\ BagCardinality(yielded) = FlushLimit

\* What a local variable holds, as a sequence.
HeldSeq(x) == IF x = None THEN <<>> ELSE <<x>>

\* The results that have left the only mapper of a pump with one mapper, from
\* the oldest to the newest.
Downstream ==
    o_taken[1] \o NonEos(aq_out[1])
        \o (IF m_pc[1][1] = "put" THEN <<m_x[1][1]>> ELSE <<>>)

\* C24: what a pump has written to the blocking result queue is, in this
\* order, what output_loop has taken from aq_out (but for the result it still
\* holds, the last one taken), also when a push had to wait for room in the
\* result queue. Every queue is first in, first out: behind a single mapper
\* whose calls never raised the results are in the order of the items.
C24_OutputInOrder ==
    /\ NonEos(Out) \o HeldSeq(o_x[1]) = o_taken[1]
    /\ (tasks = 1 /\ dropped = EmptyBag) =>
         Downstream = SubSeq(MapSeq(input), 1, Len(Downstream))

\* C24 witness: output_loop has taken two distinct results; the first one
\* fills the result queue, the push of the second one has failed and sleeps
\* before it is tried again.
C24_Witness ==
    /\ o_pc[1] = "sleep"
    /\ max_buffer = 1
    /\ Len(o_taken[1]) = 2
    /\ o_taken[1][1] # o_taken[1][2]
    /\ q2 = <<o_taken[1][1]>>
    /\ o_x[1] = o_taken[1][2]

\* The items and results that thread t holds: in its two asyncio queues, in
\* its mappers, in intake_loop and in output_loop.
HeldByThread(t) ==
    Len(NonEos(aq_in[t])) + Len(NonEos(aq_out[t]))
        + Cardinality({k \in Mappers : m_pc[t][k] \in {"func", "put"}})
        + Len(HeldSeq(pump_x[t])) + Len(HeldSeq(o_x[t]))

RECURSIVE HeldByThreads(_)
HeldByThreads(n) == IF n = 0 THEN 0 ELSE HeldByThread(n) + HeldByThreads(n - 1)

\* The items fed so far that were neither yielded nor dropped.
InFlightItems ==
    Min(FedCount, Len(input)) - BagCardinality(yielded) - BagCardinality(dropped)

\* 2*C for the two shared queues and, per thread, 2*M for each asyncio queue,
\* M for the mappers and one for each bridge.
InFlightBound == 2 * max_buffer + nthreads * (5 * tasks + 2)

\* C25: the items fed to map and neither yielded nor dropped are those held
\* in the feed queue, in the result queue and by the threads, and there are at
\* most 2*C + N*(5*M + 2) of them, however long the input is.
C25_InFlightBounded ==
    g_pc # "idle" =>
        /\ InFlightItems = Len(NonEos(q1)) + Len(q2) + HeldByThreads(nthreads)
        /\ \A t \in Threads : HeldByThread(t) <= 5 * tasks + 2
        /\ InFlightItems <= InFlightBound

\* C25 witness: with an input longer than the bound everything is full at
\* once: both shared queues, both asyncio queues, the mapper and both bridges.
C25_Witness ==
    /\ Len(input) > InFlightBound
    /\ InFlightItems = InFlightBound
    /\ g_its # <<>>

====
